---- MODULE Spec2Model ----
(***************************************************************************)
(* The invoices router of the invoices service                             *)
(* (invoices-service/src/invoices/routers/invoices-router/                 *)
(* invoices-router.ts): six express routes over an injected                *)
(* InvoicesService.  One request is followed from its arrival to its one   *)
(* outcome: a response sent through res, or an error handed to next().     *)
(*                                                                         *)
(* A handler runs in two pieces, split at its await: the piece before the  *)
(* await (the celebrate middleware of the route, the checks of the         *)
(* handler, the call of the service) and the piece after it (the           *)
(* continuation, or the catch block when the awaited promise rejects).     *)
(* Between the two the service answers: it returns a value or it throws.   *)
(***************************************************************************)
EXTENDS Integers, Sequences, FiniteSets, TLC

VARIABLES
    pc,         \* "idle", "awaiting" (the service was called), "settled", "done"
    req,        \* the request being handled
    calls,      \* the calls of the service made for this request, in order
    svc,        \* what the awaited call came to
    responses,  \* the responses sent through res for this request, in order
    forwarded,  \* the errors handed to next() for this request, in order
    store       \* the invoices the service held when it answered the call

vars == <<pc, req, calls, svc, responses, forwarded, store>>

-----------------------------------------------------------------------------
(* Bounds of the model *)

\* the most files one multipart upload carries
MaxFiles == 2
\* the most orderBy clauses one query carries
MaxOrderBy == 2

-----------------------------------------------------------------------------
(* Values *)

\* JavaScript's undefined, and a defined value
Undefined == [defined |-> FALSE]
Def(v) == [defined |-> TRUE, val |-> v]

\* the sequences over S of length at most n
RECURSIVE SeqsUpTo(_, _)
SeqsUpTo(S, n) ==
    IF n = 0 THEN {<<>>}
    ELSE LET shorter == SeqsUpTo(S, n - 1)
         IN  shorter \cup {Append(s, x) : s \in {t \in shorter : Len(t) = n - 1}, x \in S}

Elems(s) == {s[i] : i \in DOMAIN s}

\* strings accepted by Joi.string().uuid(), and one that is not
Uuids == {"7a1c0000-0000-4000-8000-000000000001", "7a1c0000-0000-4000-8000-000000000002"}
VendorIds == {"7a1c0000-0000-4000-8000-0000000000a1", "7a1c0000-0000-4000-8000-0000000000a2"}
NonUuid == "not-a-uuid"
IsUuid(s) == s \in Uuids \cup VendorIds

\* Object.values(InvoiceStatus), and a string outside it
InvoiceStatus == {"created", "paid"}
NonStatus == "bogus"

DueDates == {1, 2}


\* an Invoice as the service hands it out
Invoices == [id : Uuids, status : InvoiceStatus, vendorId : VendorIds, dueDate : DueDates]

\* Buffer contents, as sequences of bytes
SampleBytes == {<<>>, <<37, 80>>}

\* an error object: its class and its message
Err(class, message) == [class |-> class, message |-> message]

-----------------------------------------------------------------------------
(* What a piece of a handler comes to *)

Throw(e) == [kind |-> "throw", err |-> e]
Call(fn, args) == [kind |-> "call", fn |-> fn, args |-> args]
Respond(res) == [kind |-> "respond", res |-> res]
Value(v) == [kind |-> "value", val |-> v]

\* no res.set() was made
NoHeaders == [set |-> FALSE]

-----------------------------------------------------------------------------
(* POST / : the upload *)

\* express-fileupload's UploadedFile (the fields the handler reads)
SampleFiles ==
    { [name |-> "invoice.pdf", data |-> <<37, 80>>, mimetype |-> "application/pdf"],
      [name |-> "scan.png", data |-> <<137>>, mimetype |-> "image/png"] }

FormFields == {"invoice", "attachment"}

\* the file parts of one multipart body, in the order sent
Uploads == SeqsUpTo([field : FormFields, file : SampleFiles], MaxFiles)

\* express-fileupload files one part under its form field: req.files[field] is
\* the UploadedFile while the field has one file, and the array of them from
\* the second on.  An entry's value is the sequence of the field's files.
AddField(instance, part) ==
    IF \E i \in DOMAIN instance : instance[i].key = part.field
    THEN [i \in DOMAIN instance |->
            IF instance[i].key = part.field
            THEN [instance[i] EXCEPT !.value = Append(@, part.file)]
            ELSE instance[i]]
    ELSE Append(instance, [key |-> part.field, value |-> <<part.file>>])

RECURSIVE BuildFields(_, _)
BuildFields(instance, parts) ==
    IF parts = <<>> THEN instance
    ELSE BuildFields(AddField(instance, Head(parts)), Tail(parts))

\* req.files: left undefined without a file part
ReqFiles(parts) ==
    IF parts = <<>> THEN Undefined ELSE Def(BuildFields(<<>>, parts))

\* Object.keys(req.files), in insertion order
ObjectKeys(obj) == [i \in DOMAIN obj |-> obj[i].key]

\* req.files[key]
FileAt(obj, key) == obj[CHOOSE i \in DOMAIN obj : obj[i].key = key].value

\* invoiceFile.data and invoiceFile.mimetype of the value the handler casts to
\* UploadedFile: the file's own, or undefined when the value is an array
FileData(value) == IF Len(value) = 1 THEN Def(value[1].data) ELSE Undefined
FileMimetype(value) == IF Len(value) = 1 THEN Def(value[1].mimetype) ELSE Undefined

\* the argument of createInvoice
CreateInvoiceArgs(invoiceFile) ==
    [document |-> [content |-> FileData(invoiceFile),
                   mimeType |-> FileMimetype(invoiceFile)]]

\* the handler up to its await
PostInvoices(files) ==
    IF ~files.defined
    THEN Throw(Err("RangeError", "No files were uploaded"))
    ELSE LET fileKeys == ObjectKeys(files.val) IN
         IF Len(fileKeys) = 0
         THEN Throw(Err("RangeError", "No files were uploaded"))
         ELSE IF Len(fileKeys) # 1
         THEN Throw(Err("RangeError", "Must upload a single file"))
         ELSE Call("createInvoice", CreateInvoiceArgs(FileAt(files.val, fileKeys[1])))

\* StatusCodes.CREATED
CREATED == 201

\* the handler after its await, had it left the status at its default
PostInvoicesThenDefaultStatus(invoice) ==
    Respond([status |-> 200, via |-> "json", body |-> invoice, headers |-> NoHeaders])

\* the handler after its await
PostInvoicesThen(invoice) ==
    Respond([status |-> CREATED, via |-> "json", body |-> invoice, headers |-> NoHeaders])

-----------------------------------------------------------------------------
(* GET / : the listing *)

SP == " "
dueDate == <<"d", "u", "e", "D", "a", "t", "e">>
asc == <<"a", "s", "c">>
desc == <<"d", "e", "s", "c">>
price == <<"p", "r", "i", "c", "e">>
sideways == <<"s", "i", "d", "e", "w", "a", "y", "s">>

\* orderBy clauses a query may carry, as sequences of characters
SampleClauses ==
    { dueDate \o <<SP>> \o asc,
      dueDate \o <<SP>> \o desc,
      price \o <<SP>> \o asc,
      dueDate \o <<SP>> \o sideways,
      dueDate \o <<SP>> \o asc \o <<SP>> \o price,
      dueDate \o <<SP, SP>> \o asc,
      dueDate,
      <<>> }

\* the string of a sequence of characters
RECURSIVE Str(_)
Str(chars) == IF chars = <<>> THEN "" ELSE Head(chars) \o Str(Tail(chars))

\* String.prototype.split with a one-character separator
RECURSIVE Split(_, _)
Split(s, sep) ==
    IF \A i \in DOMAIN s : s[i] # sep THEN <<s>>
    ELSE LET i == CHOOSE k \in DOMAIN s :
                      s[k] = sep /\ \A j \in 1..(k - 1) : s[j] # sep
         IN  <<SubSeq(s, 1, i - 1)>> \o Split(SubSeq(s, i + 1, Len(s)), sep)

\* the callback of orderByQueryParam.map
ParseOrderByClause(orderByClause) ==
    LET parts == Split(orderByClause, SP)
        field == parts[1]
        direction == IF Len(parts) >= 2 THEN Def(parts[2]) ELSE Undefined
    IN  IF field # dueDate
        THEN Throw(Err("Error", ""))
        ELSE IF ~(direction.defined /\ direction.val \in {asc, desc})
        THEN Throw(Err("RangeError",
                       "Invalid direction in orderBy clause " \o Str(orderByClause)))
        ELSE Value([field |-> field, direction |-> direction.val])

\* orderByQueryParam.map: the clauses in order, stopped by the first throw
RECURSIVE MapOrderBy(_)
MapOrderBy(clauses) ==
    IF clauses = <<>> THEN Value(<<>>)
    ELSE LET first == ParseOrderByClause(Head(clauses)) IN
         IF first.kind = "throw" THEN first
         ELSE LET rest == MapOrderBy(Tail(clauses)) IN
              IF rest.kind = "throw" THEN rest
              ELSE Value(<<first.val>> \o rest.val)

\* the argument of listInvoices, had the statuses been left out of it
ListInvoicesArgsNoStatuses(query, orderBy) ==
    [ids |-> query.ids, statuses |-> Undefined,
     vendorIds |-> query.vendorIds, orderBy |-> orderBy]

\* the argument of listInvoices
ListInvoicesArgs(query, orderBy) ==
    [ids |-> query.ids, statuses |-> query.statuses,
     vendorIds |-> query.vendorIds, orderBy |-> orderBy]

\* the celebrate schema of the query
ListInvoicesCelebrate(query) ==
    /\ query.ids.defined => \A i \in DOMAIN query.ids.val : IsUuid(query.ids.val[i])
    /\ query.statuses.defined =>
          \A i \in DOMAIN query.statuses.val : query.statuses.val[i] \in InvoiceStatus
    /\ query.vendorIds.defined =>
          \A i \in DOMAIN query.vendorIds.val : IsUuid(query.vendorIds.val[i])
    /\ query.orderBy.defined =>
          \A i \in DOMAIN query.orderBy.val : query.orderBy.val[i] # <<>>

\* the handler up to its await
ListInvoices(query) ==
    LET orderBy == IF query.orderBy.defined
                   THEN MapOrderBy(query.orderBy.val)
                   ELSE Value(<<>>)
    IN  IF orderBy.kind = "throw" THEN orderBy
        ELSE Call("listInvoices", ListInvoicesArgs(query, orderBy.val))

\* the handler after its await
ListInvoicesThen(vendors) ==
    Respond([status |-> 200, via |-> "json", body |-> vendors, headers |-> NoHeaders])

-----------------------------------------------------------------------------
(* GET /currencies *)

ListCurrencies == Call("listCurrencies", <<>>)

ListCurrenciesThen(currencies) ==
    Respond([status |-> 200, via |-> "json", body |-> currencies, headers |-> NoHeaders])

-----------------------------------------------------------------------------
(* GET /:invoiceId *)

\* the celebrate schema of the params of GET /:invoiceId and of
\* GET /:invoiceId/download
InvoiceIdCelebrate(params) == IsUuid(params.invoiceId)

GetInvoiceById(params) == Call("getInvoiceById", params.invoiceId)

\* the continuation, had it thrown a plain Error for a missing invoice
GetInvoiceByIdThenPlainError(params, invoice) ==
    IF ~invoice.defined
    THEN Throw(Err("Error", "Invoice " \o params.invoiceId \o " not found"))
    ELSE Respond([status |-> 200, via |-> "json", body |-> invoice.val,
                  headers |-> NoHeaders])

GetInvoiceByIdThen(params, invoice) ==
    IF ~invoice.defined
    THEN Throw(Err("NotFoundError", "Invoice " \o params.invoiceId \o " not found"))
    ELSE Respond([status |-> 200, via |-> "json", body |-> invoice.val,
                  headers |-> NoHeaders])

-----------------------------------------------------------------------------
(* GET /:invoiceId/download *)

\* MIME types a stored document may carry
SampleMimeTypes ==
    {"application/pdf", "image/png", "Application/PDF", "application/x-invoice", ""}

\* mimeTypes.extension: the first extension the type is registered with (the
\* type is lower-cased before the lookup), or false
MimeTypesExtension(type) ==
    CASE type \in {"application/pdf", "Application/PDF"} -> Def("pdf")
      [] type = "image/png" -> Def("png")
      [] OTHER -> Undefined

\* the object given to res.set, had the file name ended in the MIME type
DownloadHeadersMimeSuffix(invoiceId, invoiceDocumentFile, fileExtension) ==
    [set |-> TRUE,
     h |-> ("Content-Type" :> invoiceDocumentFile.mimeType)
           @@ ("Content-Length" :> Len(invoiceDocumentFile.content))
           @@ ("Content-Disposition" :>
                 "attachment; filename=\"" \o invoiceId \o "."
                 \o invoiceDocumentFile.mimeType \o "\"")]

\* the object given to res.set
DownloadHeaders(invoiceId, invoiceDocumentFile, fileExtension) ==
    [set |-> TRUE,
     h |-> ("Content-Type" :> invoiceDocumentFile.mimeType)
           @@ ("Content-Length" :> Len(invoiceDocumentFile.content))
           @@ ("Content-Disposition" :>
                 "attachment; filename=\"" \o invoiceId \o "." \o fileExtension \o "\"")]

DownloadInvoiceDocument(params) == Call("downloadInvoiceDocumentFile", params.invoiceId)

\* the continuation, had it reported an unmapped MIME type as a missing invoice
DownloadInvoiceDocumentThenAllNotFound(params, invoiceDocumentFile) ==
    IF ~invoiceDocumentFile.defined
       \/ ~MimeTypesExtension(invoiceDocumentFile.val.mimeType).defined
    THEN Throw(Err("NotFoundError", "Invoice " \o params.invoiceId \o " not found"))
    ELSE Respond([status |-> 200, via |-> "send",
                  body |-> invoiceDocumentFile.val.content,
                  headers |-> DownloadHeaders(params.invoiceId,
                                              invoiceDocumentFile.val,
                                              MimeTypesExtension(
                                                  invoiceDocumentFile.val.mimeType).val)])

DownloadInvoiceDocumentThen(params, invoiceDocumentFile) ==
    IF ~invoiceDocumentFile.defined
    THEN Throw(Err("NotFoundError", "Invoice " \o params.invoiceId \o " not found"))
    ELSE LET fileExtension == MimeTypesExtension(invoiceDocumentFile.val.mimeType) IN
         IF ~fileExtension.defined
         THEN Throw(Err("Error", "Invalid mimeType " \o invoiceDocumentFile.val.mimeType
                                  \o " for invoice " \o params.invoiceId))
         ELSE Respond([status |-> 200, via |-> "send",
                       body |-> invoiceDocumentFile.val.content,
                       headers |-> DownloadHeaders(params.invoiceId,
                                                   invoiceDocumentFile.val,
                                                   fileExtension.val)])

-----------------------------------------------------------------------------
(* PATCH /:invoiceId *)

\* the celebrate schema of the body (the params have none)
UpdateInvoiceCelebrate(body) == body.status.defined => body.status.val \in InvoiceStatus

\* the arguments of updateInvoice, had an absent status been filled in
UpdateInvoiceArgsDefaultStatus(params, body) ==
    [invoiceId |-> params.invoiceId,
     update |-> [status |-> IF body.status.defined THEN body.status ELSE Def("created")]]

\* the arguments of updateInvoice
UpdateInvoiceArgs(params, body) ==
    [invoiceId |-> params.invoiceId, update |-> [status |-> body.status]]

UpdateInvoice(params, body) == Call("updateInvoice", UpdateInvoiceArgs(params, body))

UpdateInvoiceThen(invoice) ==
    Respond([status |-> 200, via |-> "json", body |-> invoice, headers |-> NoHeaders])

-----------------------------------------------------------------------------
(* The InvoicesService behind the router, and the error handler after it *)

\* errors a call of the service may throw
ServiceErrors ==
    { Err("Error", "service unavailable"),
      Err("NotFoundError", "Vendor not found"),
      Err("TypeError", "Cannot read properties of undefined") }

\* the invoices a store may hold: for each identifier none, or one invoice
StoreChoices ==
    [Uuids -> {Undefined}
              \cup {Def(r) : r \in [status : InvoiceStatus, vendorId : VendorIds,
                                    dueDate : DueDates]}]

Store(f) ==
    { [id |-> i, status |-> f[i].val.status, vendorId |-> f[i].val.vendorId,
       dueDate |-> f[i].val.dueDate] : i \in {j \in Uuids : f[j].defined} }

\* an invoice passes every filter that is given
Matches(inv, args) ==
    /\ args.ids.defined => inv.id \in Elems(args.ids.val)
    /\ args.statuses.defined => inv.status \in Elems(args.statuses.val)
    /\ args.vendorIds.defined => inv.vendorId \in Elems(args.vendorIds.val)

\* a before b (negative), b before a (positive) or either way (0), by the
\* clauses in the order given
RECURSIVE Compare(_, _, _)
Compare(orderBy, a, b) ==
    IF orderBy = <<>> THEN 0
    ELSE LET up == IF a.dueDate < b.dueDate THEN -1
                   ELSE IF a.dueDate > b.dueDate THEN 1 ELSE 0
             byClause == IF Head(orderBy).direction = asc THEN up ELSE -up
         IN  IF byClause # 0 THEN byClause ELSE Compare(Tail(orderBy), a, b)

\* the sequences that list S once each in an order the clauses allow
Orderings(S, orderBy) ==
    { s \in [1..Cardinality(S) -> S] :
        /\ \A i, j \in DOMAIN s : i # j => s[i] # s[j]
        /\ \A i, j \in DOMAIN s : i < j => Compare(orderBy, s[i], s[j]) <= 0 }

\* the static list of currencies
Currencies == <<"BRL", "EUR", "USD">>

\* the documents a store may hold
Documents == [content : SampleBytes, mimeType : SampleMimeTypes]

\* what a call of the service may return when it holds the invoices S
ServiceResults(call, S) ==
    CASE call.fn = "createInvoice" ->
           {inv \in Invoices : inv.status = "created" /\ \A x \in S : x.id # inv.id}
      [] call.fn = "listInvoices" ->
           Orderings({inv \in S : Matches(inv, call.args)}, call.args.orderBy)
      [] call.fn = "listCurrencies" -> {Currencies}
      [] call.fn = "getInvoiceById" ->
           IF \E x \in S : x.id = call.args
           THEN {Def(x) : x \in {y \in S : y.id = call.args}}
           ELSE {Undefined}
      [] call.fn = "downloadInvoiceDocumentFile" ->
           IF \E x \in S : x.id = call.args
           THEN {Def(d) : d \in Documents}
           ELSE {Undefined}
      [] call.fn = "updateInvoice" ->
           IF \E x \in S : x.id = call.args.invoiceId
           THEN {Def(IF call.args.update.status.defined
                     THEN [x EXCEPT !.status = call.args.update.status.val]
                     ELSE x) : x \in {y \in S : y.id = call.args.invoiceId}}
           ELSE {Undefined}

\* the error celebrate hands to next() when a schema rejects the request
CelebrateError == Err("CelebrateError", "Validation failed")

\* the kind the error handler gives an error, by its class
ErrorKind(err) ==
    CASE err.class \in {"RangeError", "CelebrateError"} -> "InvalidRequest"
      [] err.class = "NotFoundError" -> "NotFound"
      [] err.class = "Error" -> "InvalidState"
      [] OTHER -> "Unhandled"

-----------------------------------------------------------------------------
(* The requests *)

InvoiceIdParams == [invoiceId : Uuids \cup {NonUuid}]

PostRequests ==
    {[op |-> "POST /", uploads |-> <<>>, files |-> Def(<<>>)]}
    \cup {[op |-> "POST /", uploads |-> u, files |-> ReqFiles(u)] : u \in Uploads}

IdLists == {<<i>> : i \in Uuids \cup {NonUuid}}
StatusLists == {<<"paid">>, <<"created", "paid">>, <<NonStatus>>}
VendorIdLists == {<<v>> : v \in VendorIds}

Queries ==
    [ids : {Undefined} \cup {Def(l) : l \in IdLists},
     statuses : {Undefined} \cup {Def(l) : l \in StatusLists},
     vendorIds : {Undefined} \cup {Def(l) : l \in VendorIdLists},
     orderBy : {Undefined} \cup {Def(l) : l \in SeqsUpTo(SampleClauses, MaxOrderBy)}]

Bodies == [status : {Undefined} \cup {Def(v) : v \in InvoiceStatus \cup {NonStatus}}]

-----------------------------------------------------------------------------
(* The state machine *)

Init ==
    /\ pc = "idle"
    /\ req = [op |-> "none"]
    /\ calls = <<>>
    /\ svc = [state |-> "none"]
    /\ responses = <<>>
    /\ forwarded = <<>>
    /\ store = {}

\* what a piece of a handler comes to, done to the request
Do(outcome) ==
    CASE outcome.kind = "throw" ->
           /\ forwarded' = Append(forwarded, outcome.err)
           /\ pc' = "done"
           /\ UNCHANGED <<calls, responses>>
      [] outcome.kind = "call" ->
           /\ calls' = Append(calls, [fn |-> outcome.fn, args |-> outcome.args])
           /\ pc' = "awaiting"
           /\ UNCHANGED <<responses, forwarded>>
      [] outcome.kind = "respond" ->
           /\ responses' = Append(responses, outcome.res)
           /\ pc' = "done"
           /\ UNCHANGED <<calls, forwarded>>

\* a request arrives: the route's celebrate middleware, then its handler up
\* to the await
Arrive(r, valid, outcome) ==
    /\ req' = r
    /\ UNCHANGED <<svc, store>>
    /\ Do(IF valid THEN outcome ELSE Throw(CelebrateError))

\* the continuation, had the catch block wrapped what the call threw
ResumeWrapping(outcome) ==
    /\ UNCHANGED <<req, svc, store>>
    /\ Do(IF svc.state = "threw"
          THEN Throw(Err("Error", svc.err.message))
          ELSE outcome)

\* the handler goes on after its await: the catch block forwards what the
\* call threw
Resume(outcome) ==
    /\ UNCHANGED <<req, svc, store>>
    /\ Do(IF svc.state = "threw" THEN Throw(svc.err) ELSE outcome)

PostInvoicesArrives ==
    /\ pc = "idle"
    /\ \E r \in PostRequests : Arrive(r, TRUE, PostInvoices(r.files))

ListInvoicesArrives ==
    /\ pc = "idle"
    /\ \E q \in Queries :
          Arrive([op |-> "GET /", query |-> q], ListInvoicesCelebrate(q), ListInvoices(q))

ListCurrenciesArrives ==
    /\ pc = "idle"
    /\ Arrive([op |-> "GET /currencies"], TRUE, ListCurrencies)

GetInvoiceByIdArrives ==
    /\ pc = "idle"
    /\ \E p \in InvoiceIdParams :
          Arrive([op |-> "GET /:invoiceId", params |-> p],
                 InvoiceIdCelebrate(p), GetInvoiceById(p))

DownloadInvoiceDocumentArrives ==
    /\ pc = "idle"
    /\ \E p \in InvoiceIdParams :
          Arrive([op |-> "GET /:invoiceId/download", params |-> p],
                 InvoiceIdCelebrate(p), DownloadInvoiceDocument(p))

UpdateInvoiceArrives ==
    /\ pc = "idle"
    /\ \E p \in InvoiceIdParams, b \in Bodies :
          Arrive([op |-> "PATCH /:invoiceId", params |-> p, body |-> b],
                 UpdateInvoiceCelebrate(b), UpdateInvoice(p, b))

ServiceReturns ==
    /\ pc = "awaiting"
    /\ \E f \in StoreChoices :
          /\ store' = Store(f)
          /\ \E v \in ServiceResults(calls[Len(calls)], Store(f)) :
                svc' = [state |-> "returned", value |-> v]
    /\ pc' = "settled"
    /\ UNCHANGED <<req, calls, responses, forwarded>>

ServiceThrows ==
    /\ pc = "awaiting"
    /\ \E e \in ServiceErrors : svc' = [state |-> "threw", err |-> e]
    /\ pc' = "settled"
    /\ UNCHANGED <<req, calls, responses, forwarded, store>>

PostInvoicesResumes ==
    /\ pc = "settled"
    /\ req.op = "POST /"
    /\ Resume(PostInvoicesThen(svc.value))

ListInvoicesResumes ==
    /\ pc = "settled"
    /\ req.op = "GET /"
    /\ Resume(ListInvoicesThen(svc.value))

ListCurrenciesResumes ==
    /\ pc = "settled"
    /\ req.op = "GET /currencies"
    /\ Resume(ListCurrenciesThen(svc.value))

GetInvoiceByIdResumes ==
    /\ pc = "settled"
    /\ req.op = "GET /:invoiceId"
    /\ Resume(GetInvoiceByIdThen(req.params, svc.value))

DownloadInvoiceDocumentResumes ==
    /\ pc = "settled"
    /\ req.op = "GET /:invoiceId/download"
    /\ Resume(DownloadInvoiceDocumentThen(req.params, svc.value))

UpdateInvoiceResumes ==
    /\ pc = "settled"
    /\ req.op = "PATCH /:invoiceId"
    /\ Resume(UpdateInvoiceThen(svc.value))

\* the request is over; the router keeps nothing of it
Finish ==
    /\ pc = "done"
    /\ pc' = "idle"
    /\ req' = [op |-> "none"]
    /\ calls' = <<>>
    /\ svc' = [state |-> "none"]
    /\ responses' = <<>>
    /\ forwarded' = <<>>
    /\ store' = {}

Next ==
    \/ PostInvoicesArrives
    \/ ListInvoicesArrives
    \/ ListCurrenciesArrives
    \/ GetInvoiceByIdArrives
    \/ DownloadInvoiceDocumentArrives
    \/ UpdateInvoiceArrives
    \/ ServiceReturns
    \/ ServiceThrows
    \/ PostInvoicesResumes
    \/ ListInvoicesResumes
    \/ ListCurrenciesResumes
    \/ GetInvoiceByIdResumes
    \/ DownloadInvoiceDocumentResumes
    \/ UpdateInvoiceResumes
    \/ Finish

Spec == Init /\ [][Next]_vars

-----------------------------------------------------------------------------
(* Properties *)

\* the files the upload carried
NumUploaded == Len(req.uploads)

\* the one response sent, the one error forwarded
Sent == responses[1]
Forwarded == forwarded[1]

\* the orderBy clauses of the query
QueryClauses == IF req.query.orderBy.defined THEN req.query.orderBy.val ELSE <<>>

\* the clause's field is not dueDate, or its direction neither asc nor desc
RejectedClause(c) ==
    LET parts == Split(c, SP) IN
    \/ parts[1] # dueDate
    \/ Len(parts) < 2
    \/ (Len(parts) >= 2 /\ parts[2] \notin {asc, desc})

\* C1: an upload of no file or of more than one file ends in InvalidRequest;
\* createInvoice is never called for it and no response is sent
C1_NotOneFileIsRejected ==
    (req.op = "POST /" /\ NumUploaded # 1) =>
        /\ calls = <<>>
        /\ responses = <<>>
        /\ pc = "done" => /\ Len(forwarded) = 1
                          /\ ErrorKind(Forwarded) = "InvalidRequest"

\* C2: a listing with a clause whose field is not dueDate, or whose direction
\* is neither asc nor desc, ends in InvalidRequest in both cases, and
\* listInvoices is not called
C2_RejectedClauseIsInvalidRequest ==
    (req.op = "GET /" /\ \E i \in DOMAIN QueryClauses : RejectedClause(QueryClauses[i])) =>
        /\ calls = <<>>
        /\ pc = "done" => /\ Len(forwarded) = 1
                          /\ ErrorKind(Forwarded) = "InvalidRequest"

\* what C3 says of the call: createInvoice, once, with the one file's bytes
\* and MIME type
OneFileCall ==
    calls = << [fn |-> "createInvoice",
                args |-> [document |->
                            [content |-> Def(req.uploads[1].file.data),
                             mimeType |-> Def(req.uploads[1].file.mimetype)]]] >>

\* C3 as stated: an upload of exactly one file always ends in a 201 response
\* whose body is the invoice, of a non-empty identifier, that the one call of
\* createInvoice returned
C3_OneFileAlwaysCreated ==
    (req.op = "POST /" /\ NumUploaded = 1 /\ pc = "done") =>
        /\ OneFileCall
        /\ Len(responses) = 1
        /\ Sent.status = 201
        /\ svc.state = "returned"
        /\ Sent.body = svc.value
        /\ Sent.body.id # ""

\* C3 amended: an upload of exactly one file makes one call of createInvoice
\* with the file's bytes and MIME type; when the call returns an invoice the
\* one outcome is a 201 response whose body is that invoice, of a non-empty
\* identifier; when the call throws, no response is sent
C3_OneFileCreatedWhenServiceReturns ==
    (req.op = "POST /" /\ NumUploaded = 1) =>
        /\ OneFileCall
        /\ (pc = "done" /\ svc.state = "returned") =>
              /\ forwarded = <<>>
              /\ Len(responses) = 1
              /\ Sent.status = 201
              /\ Sent.via = "json"
              /\ Sent.body = svc.value
              /\ Sent.body.id # ""
        /\ (pc = "done" /\ svc.state = "threw") => responses = <<>>

C3_Witness ==
    /\ req.op = "POST /" /\ NumUploaded = 1 /\ pc = "done"
    /\ svc.state = "returned"
    /\ Len(responses) = 1 /\ Sent.status = 201 /\ Sent.body.id \in Uuids

\* C4: for a valid UUID, when getInvoiceById returns no invoice the request
\* ends in NotFound and nothing else, and no body is sent; when it returns an
\* invoice, that invoice is the body and no error is raised
C4_AbsentInvoiceIsNotFound ==
    (req.op = "GET /:invoiceId" /\ IsUuid(req.params.invoiceId)
       /\ pc = "done" /\ svc.state = "returned") =>
        IF svc.value.defined
        THEN /\ forwarded = <<>>
             /\ Len(responses) = 1
             /\ Sent.body = svc.value.val
             /\ Sent.body \in store
        ELSE /\ responses = <<>>
             /\ Len(forwarded) = 1
             /\ Forwarded.class = "NotFoundError"
             /\ ErrorKind(Forwarded) = "NotFound"
             /\ \A x \in store : x.id # req.params.invoiceId

C4_Witness ==
    /\ req.op = "GET /:invoiceId" /\ pc = "done" /\ svc.state = "returned"
    /\ ~svc.value.defined
    /\ store # {}
    /\ Len(forwarded) = 1 /\ ErrorKind(Forwarded) = "NotFound"

\* C5: a download ends in NotFound when no document is returned, and in
\* InvalidState when the returned document's MIME type maps to no extension;
\* in both no header is set and no byte is sent
C5_DownloadFailures ==
    (req.op = "GET /:invoiceId/download" /\ pc = "done" /\ svc.state = "returned") =>
        /\ ~svc.value.defined =>
              /\ responses = <<>>
              /\ Len(forwarded) = 1
              /\ ErrorKind(Forwarded) = "NotFound"
        /\ (svc.value.defined
              /\ svc.value.val.mimeType \notin {"application/pdf", "Application/PDF",
                                                "image/png"}) =>
              /\ responses = <<>>
              /\ Len(forwarded) = 1
              /\ Forwarded.class = "Error"
              /\ ErrorKind(Forwarded) = "InvalidState"

C5_Witness ==
    /\ req.op = "GET /:invoiceId/download" /\ pc = "done" /\ svc.state = "returned"
    /\ svc.value.defined
    /\ svc.value.val.mimeType = "application/x-invoice"
    /\ Len(forwarded) = 1 /\ ErrorKind(Forwarded) = "InvalidState"

\* the extension C6 expects for the MIME types that have one
ExpectedExtension(mimeType) ==
    IF mimeType = "image/png" THEN "png" ELSE "pdf"

C7_OneCallOneOutcome ==
    /\ Len(calls) <= 1
    /\ Len(responses) + Len(forwarded) <= 1
    /\ pc = "done" => Len(responses) + Len(forwarded) = 1
    /\ pc \in {"idle", "awaiting", "settled"} => (responses = <<>> /\ forwarded = <<>>)
    /\ (pc = "done" /\ svc.state = "threw") =>
          /\ responses = <<>>
          /\ forwarded = <<svc.err>>
          /\ Len(calls) = 1

C7_Witness ==
    /\ pc = "done" /\ svc.state = "threw"
    /\ req.op = "GET /currencies"
    /\ forwarded = <<svc.err>>
    /\ Len(calls) = 1

\* C8: a PATCH whose body has no status calls updateInvoice once, with the
\* identifier of the path and an update without status, and nothing else
\* (no getInvoiceById); the response is what updateInvoice returned; a status
\* that is present goes into the call unchanged
C8_PatchDelegates ==
    (req.op = "PATCH /:invoiceId"
       /\ (req.body.status.defined => req.body.status.val \in InvoiceStatus)) =>
        /\ Len(calls) = 1
        /\ calls[1].fn = "updateInvoice"
        /\ calls[1].args.invoiceId = req.params.invoiceId
        /\ calls[1].args.update.status = req.body.status
        /\ (pc = "done" /\ svc.state = "returned") =>
              /\ forwarded = <<>>
              /\ Len(responses) = 1
              /\ Sent.body = svc.value
        /\ (pc = "done" /\ svc.state = "threw") =>
              (responses = <<>> /\ forwarded = <<svc.err>>)

C8_Witness ==
    /\ req.op = "PATCH /:invoiceId" /\ pc = "done"
    /\ ~req.body.status.defined
    /\ svc.state = "returned" /\ svc.value.defined
    /\ Len(responses) = 1 /\ Sent.body = svc.value
    /\ ~calls[1].args.update.status.defined

\* an invoice passes the filters of the query
PassesQuery(inv) ==
    /\ req.query.ids.defined => \E i \in DOMAIN req.query.ids.val : req.query.ids.val[i] = inv.id
    /\ req.query.statuses.defined =>
          \E i \in DOMAIN req.query.statuses.val : req.query.statuses.val[i] = inv.status
    /\ req.query.vendorIds.defined =>
          \E i \in DOMAIN req.query.vendorIds.val : req.query.vendorIds.val[i] = inv.vendorId

\* C9: the listing calls listInvoices once, with the ids, statuses and
\* vendorIds of the query unchanged and its clauses parsed, as many and in the
\* same order; the response is what the call returned: the invoices of the
\* store that pass every given filter (all of them when none is given), each
\* once, in the order of the clauses
C9_ListingFiltersAndOrders ==
    (req.op = "GET /" /\ calls # <<>>) =>
        LET args == calls[1].args IN
        /\ Len(calls) = 1
        /\ calls[1].fn = "listInvoices"
        /\ args.ids = req.query.ids
        /\ args.statuses = req.query.statuses
        /\ args.vendorIds = req.query.vendorIds
        /\ Len(args.orderBy) = Len(QueryClauses)
        /\ \A i \in DOMAIN QueryClauses :
              /\ args.orderBy[i].field = dueDate
              /\ args.orderBy[i].direction = Split(QueryClauses[i], SP)[2]
        /\ (pc = "done" /\ svc.state = "returned") =>
              /\ Len(responses) = 1
              /\ Sent.body = svc.value
              /\ Elems(Sent.body) = {inv \in store : PassesQuery(inv)}
              /\ \A i, j \in DOMAIN Sent.body : i # j => Sent.body[i] # Sent.body[j]
              /\ (~req.query.ids.defined /\ ~req.query.statuses.defined
                    /\ ~req.query.vendorIds.defined) => Elems(Sent.body) = store
              /\ req.query.statuses = Def(<<"paid">>) =>
                    \A i \in DOMAIN Sent.body : Sent.body[i].status = "paid"
              /\ QueryClauses # <<>> =>
                    \A i, j \in DOMAIN Sent.body :
                        i < j => IF Split(QueryClauses[1], SP)[2] = asc
                                 THEN Sent.body[i].dueDate <= Sent.body[j].dueDate
                                 ELSE Sent.body[i].dueDate >= Sent.body[j].dueDate

C9_Witness ==
    /\ req.op = "GET /" /\ pc = "done" /\ svc.state = "returned"
    /\ req.query.statuses = Def(<<"created", "paid">>)
    /\ req.query.vendorIds.defined
    /\ Len(QueryClauses) = 2
    /\ Split(QueryClauses[1], SP)[2] = desc
    /\ Cardinality(store) = 2
    /\ Len(responses) = 1 /\ Len(Sent.body) = 2
    /\ Sent.body[1].dueDate > Sent.body[2].dueDate

\* C10: listInvoices is called only when every clause of the query is exactly
\* "dueDate asc" or "dueDate desc"
C10_OnlyExactClausesAccepted ==
    (req.op = "GET /" /\ calls # <<>>) =>
        \A i \in DOMAIN QueryClauses :
            QueryClauses[i] \in {dueDate \o <<SP>> \o asc, dueDate \o <<SP>> \o desc}

====
